---------------------------- MODULE Spec2Model ----------------------------
(***************************************************************************)
(* SoundGrid: a 10x10 step sequencer (src/app.py) whose timer also drives  *)
(* a camera hue tracker that controls one extra oscillator                 *)
(* (src/camera_utils.py).  Instruments are built by create_instrument      *)
(* (src/sound_synthesis.py).                                               *)
(*                                                                         *)
(* Every wx event handler is one action.  pyo objects are records that     *)
(* keep what the handlers can observe or change: whether a signal or a     *)
(* fader has been stopped, frequencies, the number of mixed sources.       *)
(* Frequencies are exact decimals, held as integers in units of            *)
(* 1/Unit Hz.                                                              *)
(***************************************************************************)
EXTENDS Integers, Sequences, FiniteSets, TLC

(***************************************************************************)
(* Bounds of the model.                                                    *)
(***************************************************************************)
\* decimal digits kept beyond 1/100 Hz: how many smoothing steps of
\* update_hue_oscillator stay exactly representable
MaxSmooth == 1
\* grid rows 0..MaxToggleRow of the toggled columns receive toggle events
MaxToggleRow == 0
\* the hold buttons of the last MaxHold instruments receive events
MaxHold == 1
\* rows 0..MaxColumnRow of the first column, with the first cell of the
\* second column, are switched on in the runs that exercise column voices
MaxColumnRow == 1

\* at most MaxChanged of the settings differ from their initial values at
\* any time, in the runs that combine all the handlers
MaxChanged == 1

\* quantize_to_scale is tried on every whole number of Hz up to this one
MaxQuantizeHz == 650

(***************************************************************************)
(* Program constants.                                                      *)
(***************************************************************************)
GRID_SIZE == 10
INITIAL_SPEED == 100
INITIAL_SLIDER == 5
BASE_FREQ == 220
HOLD_FREQ == 220
INITIAL_FREQ == 220
AREA_MODULUS == 300
FRAME_DIVIDER == 5

INSTRUMENT_NAMES ==
    <<"sine", "saw", "square", "samples", "mysynth", "fm", "drumkit">>

RECURSIVE Pow10(_)
Pow10(n) == IF n = 0 THEN 1 ELSE 10 * Pow10(n - 1)

\* units per Hz, and a frequency given in 1/100 Hz
Unit == 100 * Pow10(MaxSmooth)
cHz(c) == c * Pow10(MaxSmooth)
Hz(h) == h * Unit

Abs(x) == IF x < 0 THEN -x ELSE x

\* the row frequencies of the grid, row y at position y + 1
scale_frequencies ==
    << cHz(22000), cHz(26163), cHz(29366), cHz(32963), cHz(39200),
       cHz(44000), cHz(52325), cHz(58733), cHz(65925), cHz(78400) >>

\* the table quantize_to_scale snaps to
SCALE_FREQUENCIES ==
    << cHz(22000), cHz(24694), cHz(26163), cHz(29366), cHz(32963),
       cHz(39200), cHz(44000), cHz(49388), cHz(52325), cHz(58733) >>

\* min(seq, key=lambda x: abs(x - freq)) from position i on, best being
\* the first minimal element among the earlier ones
RECURSIVE NearestFrom(_, _, _, _)
NearestFrom(seq, freq, i, best) ==
    IF i > Len(seq) THEN best
    ELSE NearestFrom(seq, freq, i + 1,
                     IF Abs(seq[i] - freq) < Abs(best - freq) THEN seq[i] ELSE best)

\* max in place of min
RECURSIVE FarthestFrom(_, _, _, _)
FarthestFrom(seq, freq, i, best) ==
    IF i > Len(seq) THEN best
    ELSE FarthestFrom(seq, freq, i + 1,
                      IF Abs(seq[i] - freq) > Abs(best - freq) THEN seq[i] ELSE best)

quantize_farthest(freq) ==
    FarthestFrom(SCALE_FREQUENCIES, freq, 2, SCALE_FREQUENCIES[1])

quantize_to_scale(freq) ==
    NearestFrom(SCALE_FREQUENCIES, freq, 2, SCALE_FREQUENCIES[1])

(***************************************************************************)
(* The state of SoundGrid and of its CameraManager.                        *)
(***************************************************************************)
VARIABLES
    playing,                \* SoundGrid.playing
    timer,                  \* wx.Timer: 0 when stopped, else its interval in ms
    speed,                  \* SoundGrid.speed, ms
    speed_slider,           \* value of the speed slider widget
    v_line_pos,             \* the current step column
    prev_line_pos,          \* the step column of the previous tick, or -1
    current_instruments,    \* cell -> instrument index, -1 for off
    oscillators,            \* cell -> [source, fader] or None
    column_mixers,          \* column -> [final_out, final_fader] or None
    instrument_loops,       \* instrument name -> [source, fader] or None
    live_holds,             \* instrument name -> hold graphs built by a press
                            \* and not stopped since
    volume,                 \* SoundGrid.volume, in tenths
    filter_enabled,         \* SoundGrid.filter_enabled
    filter_frequency,       \* SoundGrid.filter_frequency
    selected_sample,        \* position in samples_list
    hue_volume,             \* SoundGrid.hue_volume, in tenths
    hue_reverb,             \* SoundGrid.hue_reverb, in tenths
    target_hue,             \* SoundGrid.target_hue
    color_sensitivity,      \* SoundGrid.color_sensitivity
    hue_detection_enabled,  \* SoundGrid.hue_detection_enabled
    hue_oscillator,         \* CameraManager.hue_oscillator
    hue_reverb_effect,      \* CameraManager.hue_reverb_effect
    current_freq,           \* CameraManager.current_freq, in 1/Unit Hz
    frame_counter,          \* CameraManager.frame_counter
    capture,                \* cv2.VideoCapture: "open" or "released"
    destroyed,              \* the frame has been destroyed by on_close
    q_freq,                 \* argument of a quantize_to_scale call
    q_result,               \* its result, -1 before the call
    q_again,                \* the result quantized again, -1 before the call
    last_frame,             \* the frame the last on_timer was given
    toggle_count,           \* cell -> toggles since it was last cleared, counted
                            \* modulo the length N + 1 of the instrument cycle
    log                     \* the audio operations the last handler issued

seqVars == <<playing, timer, v_line_pos, prev_line_pos>>
speedVars == <<speed, speed_slider>>
gridVars == <<current_instruments, oscillators>>
settingVars == <<volume, filter_enabled, filter_frequency, selected_sample,
                 hue_volume, hue_reverb, target_hue, color_sensitivity>>
hueVars == <<hue_oscillator, hue_reverb_effect, current_freq, frame_counter>>
closeVars == <<capture, destroyed>>
quantVars == <<q_freq, q_result, q_again>>

vars == <<seqVars, speedVars, gridVars, column_mixers, instrument_loops, live_holds,
          settingVars, hue_detection_enabled, hueVars, closeVars, quantVars,
          last_frame, toggle_count, log>>

InstrumentNameSet == {INSTRUMENT_NAMES[i] : i \in 1..Len(INSTRUMENT_NAMES)}

Range == 0..(GRID_SIZE - 1)

\* a 10x10 list of lists holding v everywhere; row y, column x of the
\* program is grid[y + 1][x + 1]
Grid(v) == [y \in 1..GRID_SIZE |-> [x \in 1..GRID_SIZE |-> v]]

At(grid, y, x) == grid[y + 1][x + 1]

\* Python's None
None == [k |-> "None"]

\* one audio operation: what was done, to which kind of object, and where
\* (row and column of a cell, or the column / instrument position and 0)
Op(what, obj, i, j) == <<what, obj, i, j>>

(***************************************************************************)
(* create_instrument: the [source, fader] pair as one record.  The fader   *)
(* is playing from the start; the source is not routed to the output       *)
(* until the caller calls out().                                           *)
(***************************************************************************)
\* the snare branch reaching up to 300 Hz
DrumBranchWideSnare(freq) ==
    IF freq < Hz(100) THEN "kick"
    ELSE IF freq < Hz(300) THEN "snare"
    ELSE "hihat"

DrumBranch(freq) ==
    IF freq < Hz(100) THEN "kick"
    ELSE IF freq < Hz(200) THEN "snare"
    ELSE "hihat"

OscOf(instrument, freq) ==
    IF instrument = "drumkit" THEN DrumBranch(freq)
    ELSE IF instrument \in {"sine", "saw", "square", "samples", "mysynth", "fm"}
         THEN instrument
    ELSE "sine"

create_instrument(instrument, freq, vol, f_enabled, f_frequency, sample) ==
    [ k      |-> "instrument",
      osc    |-> OscOf(instrument, freq),
      freq   |-> freq,
      mul    |-> vol,
      lowpass |-> IF f_enabled THEN f_frequency ELSE 0,
      sample |-> IF instrument = "samples" THEN sample ELSE 0,
      fader  |-> "playing",
      source |-> "on",
      out    |-> FALSE ]

\* inst[1].stop() followed by inst[0].stop()
StopInstrument(inst) == [inst EXCEPT !.fader = "stopped", !.source = "stopped"]

Frame(ret, contours, area) == [ret |-> ret, contours |-> contours, area |-> area]

\* the state after SoundGrid.__init__, but for the quantizer's argument
Booted ==
    /\ playing = FALSE
    /\ timer = 0
    /\ speed = INITIAL_SPEED
    /\ speed_slider = INITIAL_SLIDER
    /\ v_line_pos = 0
    /\ prev_line_pos = -1
    /\ current_instruments = Grid(-1)
    /\ oscillators = Grid(None)
    /\ column_mixers = [c \in Range |-> None]
    /\ instrument_loops = [name \in InstrumentNameSet |-> None]
    /\ live_holds = [name \in InstrumentNameSet |-> 0]
    /\ volume = 5
    /\ filter_enabled = FALSE
    /\ filter_frequency = 1000
    /\ selected_sample = 1
    /\ hue_volume = 5
    /\ hue_reverb = 5
    /\ target_hue = 50
    /\ color_sensitivity = 5
    /\ hue_detection_enabled = TRUE
    /\ hue_oscillator = None
    /\ hue_reverb_effect = None
    /\ current_freq = Hz(INITIAL_FREQ)
    /\ frame_counter = 0
    /\ capture = "open"
    /\ destroyed = FALSE
    /\ q_result = -1
    /\ q_again = -1
    /\ last_frame = Frame(FALSE, FALSE, 0)
    /\ toggle_count = Grid(0)
    /\ log = <<>>

Init == Booted /\ q_freq = 0


(***************************************************************************)
(* CameraManager.  The camera and the image analysis are the environment:  *)
(* a frame is whether the read succeeded, whether a contour was found in   *)
(* the hue band and the area of the largest one.  The operators take the   *)
(* manager's fields as a record cm and return the new fields with the      *)
(* audio operations issued.                                                *)
(***************************************************************************)
CameraFields ==
    [ hue_oscillator    |-> hue_oscillator,
      hue_reverb_effect |-> hue_reverb_effect,
      current_freq      |-> current_freq,
      frame_counter     |-> frame_counter ]

\* the oscillator stopped before the reverb
stop_hue_oscillator_swapped(cm) ==
    IF cm.hue_oscillator # None
    THEN [ cm  |-> [cm EXCEPT !.hue_oscillator = None, !.hue_reverb_effect = None],
           ops |-> <<Op("stop", "hue_oscillator", 0, 0)>>
                   \o (IF cm.hue_reverb_effect # None
                       THEN <<Op("stop", "hue_reverb_effect", 0, 0)>> ELSE <<>>) ]
    ELSE [cm |-> cm, ops |-> <<>>]

stop_hue_oscillator(cm) ==
    IF cm.hue_oscillator # None
    THEN [ cm  |-> [cm EXCEPT !.hue_oscillator = None, !.hue_reverb_effect = None],
           ops |-> (IF cm.hue_reverb_effect # None
                    THEN <<Op("stop", "hue_reverb_effect", 0, 0)>> ELSE <<>>)
                   \o <<Op("stop", "hue_oscillator", 0, 0)>> ]
    ELSE [cm |-> cm, ops |-> <<>>]

\* Freeverb(compressed, size=reverb, bal=reverb).out()
create_hue_effects(vol, reverb) == [k |-> "Freeverb", size |-> reverb, bal |-> reverb]

\* current_freq + (target_freq - current_freq) * 0.1, exact when the
\* difference is a multiple of ten units
SmoothJump(cur, target_freq) == target_freq

SmoothOvershoot(cur, target_freq) == cur + (target_freq - cur) + (target_freq - cur) \div 10

Smooth(cur, target_freq) == cur + (target_freq - cur) \div 10

Representable(cur, target_freq) == (target_freq - cur) % 10 = 0

\* the smoothed frequency written to the oscillator on every frame
update_hue_oscillator_unthrottled(cm, target_freq, vol, reverb) ==
    LET cur == Smooth(cm.current_freq, target_freq) IN
    IF cm.hue_oscillator = None
    THEN [ cm  |-> [cm EXCEPT !.current_freq = cur,
                              !.hue_oscillator = [k |-> "Sine", freq |-> cur, mul |-> vol],
                              !.hue_reverb_effect = create_hue_effects(vol, reverb)],
           ops |-> << Op("create", "hue_oscillator", 0, 0),
                      Op("create", "hue_reverb_effect", 0, 0) >> ]
    ELSE [ cm  |-> [cm EXCEPT !.current_freq = cur,
                              !.hue_oscillator = [@ EXCEPT !.freq = cur, !.mul = vol],
                              !.hue_reverb_effect =
                                  IF @ # None
                                  THEN [@ EXCEPT !.size = reverb, !.bal = reverb]
                                  ELSE @],
           ops |-> << Op("setFreq", "hue_oscillator", 0, 0),
                      Op("setMul", "hue_oscillator", 0, 0) >>
                   \o (IF cm.hue_reverb_effect # None
                       THEN << Op("setSize", "hue_reverb_effect", 0, 0),
                               Op("setBal", "hue_reverb_effect", 0, 0) >>
                       ELSE <<>>) ]

update_hue_oscillator(cm, target_freq, vol, reverb) ==
    LET cur == Smooth(cm.current_freq, target_freq) IN
    IF cm.hue_oscillator = None
    THEN [ cm  |-> [cm EXCEPT !.current_freq = cur,
                              !.hue_oscillator = [k |-> "Sine", freq |-> cur, mul |-> vol],
                              !.hue_reverb_effect = create_hue_effects(vol, reverb)],
           ops |-> << Op("create", "hue_oscillator", 0, 0),
                      Op("create", "hue_reverb_effect", 0, 0) >> ]
    ELSE LET apply == cm.frame_counter % FRAME_DIVIDER = 0
             osc   == [cm.hue_oscillator EXCEPT
                          !.freq = IF apply THEN cur ELSE @, !.mul = vol]
         IN  [ cm  |-> [cm EXCEPT !.current_freq = cur,
                                  !.hue_oscillator = osc,
                                  !.hue_reverb_effect =
                                      IF @ # None
                                      THEN [@ EXCEPT !.size = reverb, !.bal = reverb]
                                      ELSE @],
               ops |-> (IF apply THEN <<Op("setFreq", "hue_oscillator", 0, 0)>> ELSE <<>>)
                       \o <<Op("setMul", "hue_oscillator", 0, 0)>>
                       \o (IF cm.hue_reverb_effect # None
                           THEN << Op("setSize", "hue_reverb_effect", 0, 0),
                                   Op("setBal", "hue_reverb_effect", 0, 0) >>
                           ELSE <<>>) ]

\* raw_freq = 220 + (area % 300)
RawFreq(area) == Hz(BASE_FREQ) + Hz(area % AREA_MODULUS)

\* a frame without a contour leaves the voice as it is
process_frame_keeping(cm, enabled, frame, vol, reverb) ==
    IF ~enabled THEN stop_hue_oscillator(cm)
    ELSE IF ~frame.ret THEN [cm |-> cm, ops |-> <<>>]
    ELSE LET counted == [cm EXCEPT !.frame_counter = (@ + 1) % FRAME_DIVIDER] IN
         IF frame.contours
         THEN update_hue_oscillator(counted, quantize_to_scale(RawFreq(frame.area)),
                                    vol, reverb)
         ELSE [cm |-> counted, ops |-> <<>>]

\* a failed read is treated like a frame without a contour
process_frame_stopping(cm, enabled, frame, vol, reverb) ==
    IF ~enabled THEN stop_hue_oscillator(cm)
    ELSE IF ~frame.ret THEN stop_hue_oscillator(cm)
    ELSE LET counted == [cm EXCEPT !.frame_counter = (@ + 1) % FRAME_DIVIDER] IN
         IF frame.contours
         THEN update_hue_oscillator(counted, quantize_to_scale(RawFreq(frame.area)),
                                    vol, reverb)
         ELSE stop_hue_oscillator(counted)

process_frame(cm, enabled, frame, vol, reverb) ==
    IF ~enabled THEN stop_hue_oscillator(cm)
    ELSE IF ~frame.ret THEN [cm |-> cm, ops |-> <<>>]
    ELSE LET counted == [cm EXCEPT !.frame_counter = (@ + 1) % FRAME_DIVIDER] IN
         IF frame.contours
         THEN update_hue_oscillator(counted, quantize_to_scale(RawFreq(frame.area)),
                                    vol, reverb)
         ELSE stop_hue_oscillator(counted)

\* the frames process_frame can handle within the kept precision
FrameOk(frame) ==
    (hue_detection_enabled /\ frame.ret /\ frame.contours)
        => Representable(current_freq, quantize_to_scale(RawFreq(frame.area)))


(***************************************************************************)
(* SoundGrid: helpers shared by the handlers.                              *)
(***************************************************************************)
NameIndex(name) == CHOOSE i \in 1..Len(INSTRUMENT_NAMES) : INSTRUMENT_NAMES[i] = name

RowFreq(y) == scale_frequencies[y + 1]

Build(instrument, freq) ==
    create_instrument(instrument, freq, volume, filter_enabled,
                      filter_frequency, selected_sample)

\* the audio operations a handler issued, in order
Ran(handler, ops) == log' = ops

\* the cells in the order the nested loops over rows and columns visit them
CellOrder ==
    [k \in 1..(GRID_SIZE * GRID_SIZE) |->
        <<(k - 1) \div GRID_SIZE, (k - 1) % GRID_SIZE>>]

\* fader then source stopped, for every cell of cells that holds a graph
CellStopOps(cells) ==
    LET stored(c) == At(cells, c[1], c[2]) # None
        live == SelectSeq(CellOrder, stored)
    IN  [i \in 1..(2 * Len(live)) |->
            LET c == live[(i + 1) \div 2]
            IN  IF i % 2 = 1 THEN Op("stop", "cell_fader", c[1], c[2])
                ELSE Op("stop", "cell_source", c[1], c[2])]

\* "for col_index in range(10): if self.column_mixers[col_index]: ..."
\* of on_play_pause and on_clear_all: fader and output stopped, slot cleared
StopColumnsOps ==
    LET one(c) == IF column_mixers[c] # None
                  THEN << Op("stop", "final_fader", c, 0),
                          Op("stop", "final_out", c, 0) >>
                  ELSE <<>>
        \* one(0) \o one(1) \o ... : the loop's results, in order
        upto[i \in 0..GRID_SIZE] ==
            IF i = 0 THEN <<>> ELSE upto[i - 1] \o one(i - 1)
    IN  upto[GRID_SIZE]

\* "for row in self.oscillators: for osc in row: if osc: ..." of
\* on_play_pause and on_clear_all: both parts stopped, the slot kept
StopCellsOps == CellStopOps(oscillators)

\* the stopped cells' slots emptied
StoppedCellsDropped == Grid(None)

StoppedCells ==
    [y \in 1..GRID_SIZE |->
        [x \in 1..GRID_SIZE |-> IF oscillators[y][x] # None
                                THEN StopInstrument(oscillators[y][x])
                                ELSE oscillators[y][x]]]

(***************************************************************************)
(* Hold buttons.                                                           *)
(***************************************************************************)
\* a press builds a graph whether or not the slot is occupied
on_instrument_button_down_again(name) ==
    /\ ~destroyed
    /\ instrument_loops' =
           [instrument_loops EXCEPT
               ![name] = [Build(name, Hz(HOLD_FREQ)) EXCEPT !.out = TRUE]]
    /\ live_holds' = [live_holds EXCEPT ![name] = @ + 1]
    /\ Ran("on_instrument_button_down",
           << Op("build_hold", Build(name, Hz(HOLD_FREQ)).osc, NameIndex(name), 0),
              Op("out", "hold_source", NameIndex(name), 0) >>)
    /\ UNCHANGED <<seqVars, speedVars, gridVars, column_mixers, settingVars,
                   hue_detection_enabled, hueVars, closeVars, quantVars,
                   last_frame, toggle_count>>

on_instrument_button_down(name) ==
    /\ ~destroyed
    /\ IF instrument_loops[name] # None
       THEN /\ UNCHANGED <<instrument_loops, live_holds>>
            /\ Ran("on_instrument_button_down", <<>>)
       ELSE /\ instrument_loops' =
                [instrument_loops EXCEPT
                    ![name] = [Build(name, Hz(HOLD_FREQ)) EXCEPT !.out = TRUE]]
            /\ live_holds' = [live_holds EXCEPT ![name] = @ + 1]
            /\ Ran("on_instrument_button_down",
                   << Op("build_hold", Build(name, Hz(HOLD_FREQ)).osc,
                         NameIndex(name), 0),
                      Op("out", "hold_source", NameIndex(name), 0) >>)
    /\ UNCHANGED <<seqVars, speedVars, gridVars, column_mixers, settingVars,
                   hue_detection_enabled, hueVars, closeVars, quantVars,
                   last_frame, toggle_count>>

on_instrument_button_up(name) ==
    /\ ~destroyed
    /\ IF instrument_loops[name] # None
       THEN /\ instrument_loops' = [instrument_loops EXCEPT ![name] = None]
            /\ live_holds' = [live_holds EXCEPT ![name] = @ - 1]
            /\ Ran("on_instrument_button_up",
                   << Op("stop", "hold_fader", NameIndex(name), 0),
                      Op("stop", "hold_source", NameIndex(name), 0) >>)
       ELSE /\ UNCHANGED <<instrument_loops, live_holds>>
            /\ Ran("on_instrument_button_up", <<>>)
    /\ UNCHANGED <<seqVars, speedVars, gridVars, column_mixers, settingVars,
                   hue_detection_enabled, hueVars, closeVars, quantVars,
                   last_frame, toggle_count>>

(***************************************************************************)
(* Grid button toggling.                                                   *)
(***************************************************************************)
NextInstrumentSkipOff(current) ==
    IF current = -1 THEN 0 ELSE (current + 1) % Len(INSTRUMENT_NAMES)

NextInstrument(current) ==
    IF current = -1 THEN 0 ELSE (current + 1) % (Len(INSTRUMENT_NAMES) + 1)

on_toggle(y, x) ==
    LET next_instrument == NextInstrument(At(current_instruments, y, x))
        had == At(oscillators, y, x) # None
        stops == IF had THEN << Op("stop", "cell_fader", y, x),
                                Op("stop", "cell_source", y, x) >>
                 ELSE <<>>
    IN  /\ ~destroyed
        /\ IF next_instrument = Len(INSTRUMENT_NAMES)
           THEN /\ oscillators' = [oscillators EXCEPT ![y + 1][x + 1] = None]
                /\ current_instruments' =
                       [current_instruments EXCEPT ![y + 1][x + 1] = -1]
                /\ Ran("on_toggle", stops)
           ELSE /\ oscillators' =
                    [oscillators EXCEPT
                        ![y + 1][x + 1] =
                            Build(INSTRUMENT_NAMES[next_instrument + 1], RowFreq(y))]
                /\ current_instruments' =
                    [current_instruments EXCEPT ![y + 1][x + 1] = next_instrument]
                /\ Ran("on_toggle",
                       stops \o <<Op("build_cell",
                                     Build(INSTRUMENT_NAMES[next_instrument + 1],
                                           RowFreq(y)).osc, y, x)>>)
        /\ toggle_count' =
               [toggle_count EXCEPT
                   ![y + 1][x + 1] = (@ + 1) % (Len(INSTRUMENT_NAMES) + 1)]
        /\ UNCHANGED <<seqVars, speedVars, column_mixers, instrument_loops, live_holds,
                       settingVars, hue_detection_enabled, hueVars, closeVars,
                       quantVars, last_frame>>


(***************************************************************************)
(* Playback and clearing.                                                  *)
(***************************************************************************)
\* pausing also switches every cell off
on_play_pause_clearing ==
    /\ ~destroyed
    /\ IF ~playing
       THEN /\ playing' = TRUE
            /\ timer' = speed
            /\ Ran("on_play_pause", <<>>)
            /\ UNCHANGED <<hueVars, column_mixers, oscillators, current_instruments>>
       ELSE LET hue == stop_hue_oscillator(CameraFields) IN
            /\ playing' = FALSE
            /\ hue_oscillator' = hue.cm.hue_oscillator
            /\ hue_reverb_effect' = hue.cm.hue_reverb_effect
            /\ timer' = 0
            /\ column_mixers' = [c \in Range |-> None]
            /\ oscillators' = StoppedCells
            /\ current_instruments' = Grid(-1)
            /\ Ran("on_play_pause", hue.ops \o StopColumnsOps \o StopCellsOps)
            /\ UNCHANGED <<current_freq, frame_counter>>
    /\ UNCHANGED <<v_line_pos, prev_line_pos, speedVars,
                   instrument_loops, live_holds, settingVars, hue_detection_enabled,
                   closeVars, quantVars, last_frame, toggle_count>>

on_play_pause ==
    /\ ~destroyed
    /\ IF ~playing
       THEN /\ playing' = TRUE
            /\ timer' = speed
            /\ Ran("on_play_pause", <<>>)
            /\ UNCHANGED <<hueVars, column_mixers, oscillators>>
       ELSE LET hue == stop_hue_oscillator(CameraFields) IN
            /\ playing' = FALSE
            /\ hue_oscillator' = hue.cm.hue_oscillator
            /\ hue_reverb_effect' = hue.cm.hue_reverb_effect
            /\ timer' = 0
            /\ column_mixers' = [c \in Range |-> None]
            /\ oscillators' = StoppedCells
            /\ Ran("on_play_pause", hue.ops \o StopColumnsOps \o StopCellsOps)
            /\ UNCHANGED <<current_freq, frame_counter>>
    /\ UNCHANGED <<v_line_pos, prev_line_pos, speedVars, current_instruments,
                   instrument_loops, live_holds, settingVars, hue_detection_enabled,
                   closeVars, quantVars, last_frame, toggle_count>>

\* the final "for y ... for x ..." loop of on_clear_all, after the cells
\* were possibly stopped once already by the playing branch
ClearCellsOps(cells) == CellStopOps(cells)

\* the stopped graphs stay stored
ClearedCellsKept == StoppedCells

\* "self.oscillators[y][x] = None" for every cell
ClearedCells == Grid(None)

on_clear_all ==
    LET hue == stop_hue_oscillator(CameraFields) IN
    /\ ~destroyed
    /\ IF playing
       THEN /\ playing' = FALSE
            /\ hue_oscillator' = hue.cm.hue_oscillator
            /\ hue_reverb_effect' = hue.cm.hue_reverb_effect
            /\ prev_line_pos' = -1
            /\ v_line_pos' = 0
            /\ timer' = 0
            /\ column_mixers' = [c \in Range |-> None]
            /\ Ran("on_clear_all",
                   hue.ops \o StopColumnsOps \o StopCellsOps \o ClearCellsOps(oscillators))
       ELSE /\ Ran("on_clear_all", ClearCellsOps(oscillators))
            /\ UNCHANGED <<playing, prev_line_pos, v_line_pos, timer,
                           column_mixers, hue_oscillator, hue_reverb_effect>>
    /\ current_instruments' = Grid(-1)
    /\ oscillators' = ClearedCells
    /\ toggle_count' = Grid(0)
    /\ UNCHANGED <<current_freq, frame_counter, speedVars, instrument_loops, live_holds,
                   settingVars, hue_detection_enabled, closeVars, quantVars,
                   last_frame>>

(***************************************************************************)
(* Sliders, choices and toggles.  A slider event carries the slider's new  *)
(* value.                                                                  *)
(***************************************************************************)
SpeedIntervalOffByOne(level) == 50 + (11 - level) * 20

SpeedInterval(level) == 50 + (10 - level) * 20

on_speed_change(level) ==
    /\ ~destroyed
    /\ speed_slider' = level
    /\ speed' = SpeedInterval(level)
    /\ timer' = IF playing THEN speed' ELSE timer
    /\ Ran("on_speed_change", <<>>)
    /\ UNCHANGED <<playing, v_line_pos, prev_line_pos, gridVars, column_mixers,
                   instrument_loops, live_holds, settingVars, hue_detection_enabled, hueVars,
                   closeVars, quantVars, last_frame, toggle_count>>

\* setMul on the fader of every stored cell graph and hold loop
on_volume_change(value) ==
    /\ ~destroyed
    /\ volume' = value
    /\ oscillators' =
           [y \in 1..GRID_SIZE |->
               [x \in 1..GRID_SIZE |-> IF oscillators[y][x] # None
                                       THEN [oscillators[y][x] EXCEPT !.mul = value]
                                       ELSE oscillators[y][x]]]
    /\ instrument_loops' =
           [n \in InstrumentNameSet |-> IF instrument_loops[n] # None
                                        THEN [instrument_loops[n] EXCEPT !.mul = value]
                                        ELSE instrument_loops[n]]
    /\ Ran("on_volume_change", <<>>)
    /\ UNCHANGED <<seqVars, speedVars, current_instruments, column_mixers,
                   filter_enabled, filter_frequency, selected_sample, hue_volume,
                   hue_reverb, target_hue, color_sensitivity,
                   hue_detection_enabled, hueVars, closeVars, quantVars,
                   last_frame, toggle_count, live_holds>>

\* a handler that only stores its widget's value in one field
SetField(handler, field, value) ==
    /\ ~destroyed
    /\ selected_sample' = IF field = "selected_sample" THEN value ELSE selected_sample
    /\ filter_frequency' = IF field = "filter_frequency" THEN value ELSE filter_frequency
    /\ target_hue' = IF field = "target_hue" THEN value ELSE target_hue
    /\ color_sensitivity' = IF field = "color_sensitivity" THEN value ELSE color_sensitivity
    /\ hue_volume' = IF field = "hue_volume" THEN value ELSE hue_volume
    /\ hue_reverb' = IF field = "hue_reverb" THEN value ELSE hue_reverb
    /\ filter_enabled' = IF field = "filter_enabled" THEN ~filter_enabled ELSE filter_enabled
    /\ Ran(handler, <<>>)
    /\ UNCHANGED <<seqVars, speedVars, gridVars, column_mixers, instrument_loops, live_holds,
                   volume, hue_detection_enabled, hueVars, closeVars, quantVars,
                   last_frame, toggle_count>>

on_sample_choice(idx) == SetField("on_sample_choice", "selected_sample", idx)

\* the filter toggle button starts unpressed, in step with the field
on_toggle_filter == SetField("on_toggle_filter", "filter_enabled", 0)

on_filter_freq_change(value) == SetField("on_filter_freq_change", "filter_frequency", value)

on_hue_change(value) == SetField("on_hue_change", "target_hue", value)

on_sensitivity_change(value) == SetField("on_sensitivity_change", "color_sensitivity", value)

on_hue_volume_change(value) == SetField("on_hue_volume_change", "hue_volume", value)

on_hue_reverb_change(value) == SetField("on_hue_reverb_change", "hue_reverb", value)

\* the toggle button starts in step with the field, so each click flips it
on_toggle_hue_detection ==
    /\ ~destroyed
    /\ hue_detection_enabled' = ~hue_detection_enabled
    /\ Ran("on_toggle_hue_detection", <<>>)
    /\ UNCHANGED <<seqVars, speedVars, gridVars, column_mixers, instrument_loops, live_holds,
                   settingVars, hueVars, closeVars, quantVars, last_frame,
                   toggle_count>>


(***************************************************************************)
(* The timer tick.                                                         *)
(***************************************************************************)
NextStepByTwo(pos) == (pos + 2) % GRID_SIZE

NextStep(pos) == (pos + 1) % GRID_SIZE

\* the cells of the column before col are read instead
ActiveSourcesPrevColumn(col) ==
    LET from == (col + GRID_SIZE - 1) % GRID_SIZE
        one(y) == IF At(current_instruments, y, from) # -1
                  THEN << [ row  |-> y,
                            inst |-> Build(INSTRUMENT_NAMES[
                                               At(current_instruments, y, from) + 1],
                                           RowFreq(y)) ] >>
                  ELSE <<>>
        \* one(0) \o one(1) \o ... : the loop's results, in order
        upto[i \in 0..GRID_SIZE] ==
            IF i = 0 THEN <<>> ELSE upto[i - 1] \o one(i - 1)
    IN  upto[GRID_SIZE]

\* the instruments built for the non-off cells of column col, by row,
\* each with the row it was built for
ActiveSources(col) ==
    LET one(y) == IF At(current_instruments, y, col) # -1
                  THEN << [ row  |-> y,
                            inst |-> Build(INSTRUMENT_NAMES[
                                               At(current_instruments, y, col) + 1],
                                           RowFreq(y)) ] >>
                  ELSE <<>>
        \* one(0) \o one(1) \o ... : the loop's results, in order
        upto[i \in 0..GRID_SIZE] ==
            IF i = 0 THEN <<>> ELSE upto[i - 1] \o one(i - 1)
    IN  upto[GRID_SIZE]

\* one create_instrument call per source, naming the oscillator it built
ActiveSourcesOps(col, sources) ==
    [i \in 1..Len(sources) |->
        Op("build_step", sources[i].inst.osc, sources[i].row, col)]

\* the mix keeps the gain 0.5 whatever the number of sources
ColumnVoiceUnitGain(sources) ==
    [ k           |-> "column",
      voices      |-> Len(sources),
      mul         |-> <<1, 2>>,
      final_fader |-> "playing",
      final_out   |-> "on" ]

\* Mix -> setMul(0.5 / n) -> Compress -> * Fader(...).play() -> out();
\* mul is the gain 0.5 / n as the fraction <<1, 2 * n>>.  Only
\* [final_out, final_fader] is stored: the sources' own faders are not.
ColumnVoice(sources) ==
    [ k           |-> "column",
      voices      |-> Len(sources),
      mul         |-> <<1, 2 * Len(sources)>>,
      final_fader |-> "playing",
      final_out   |-> "on" ]

ColumnVoiceOps(col, sources) ==
    << Op("mix", "column", col, Len(sources)),
       Op("play", "final_fader", col, 0),
       Op("out", "final_out", col, 0) >>

\* the tick handler without the fade-out of the previous column
on_timer_no_fade(frame) ==
    /\ ~destroyed
    /\ IF ~playing
       THEN /\ Ran("on_timer", <<>>)
            /\ UNCHANGED <<v_line_pos, prev_line_pos, hueVars, column_mixers,
                           last_frame>>
       ELSE LET prev == v_line_pos
                cur  == NextStep(v_line_pos)
                hue  == process_frame(CameraFields, hue_detection_enabled, frame,
                                      hue_volume, hue_reverb)
                had_prev == FALSE
                faded == IF had_prev
                         THEN [column_mixers EXCEPT ![prev].final_fader = "stopped"]
                         ELSE column_mixers
                sources == ActiveSources(cur)
            IN  /\ FrameOk(frame)
                /\ prev_line_pos' = prev
                /\ v_line_pos' = cur
                /\ hue_oscillator' = hue.cm.hue_oscillator
                /\ hue_reverb_effect' = hue.cm.hue_reverb_effect
                /\ current_freq' = hue.cm.current_freq
                /\ frame_counter' = hue.cm.frame_counter
                /\ last_frame' = IF hue_detection_enabled THEN frame
                                 ELSE Frame(FALSE, FALSE, 0)
                /\ column_mixers' =
                       [faded EXCEPT ![cur] = IF Len(sources) > 0
                                              THEN ColumnVoice(sources) ELSE None]
                /\ Ran("on_timer",
                       hue.ops
                       \o (IF had_prev THEN <<Op("stop", "final_fader", prev, 0)>>
                           ELSE <<>>)
                       \o ActiveSourcesOps(cur, sources)
                       \o (IF Len(sources) > 0 THEN ColumnVoiceOps(cur, sources)
                           ELSE <<>>))
    /\ UNCHANGED <<playing, timer, speedVars, gridVars, instrument_loops, live_holds,
                   settingVars, hue_detection_enabled, closeVars, quantVars,
                   toggle_count>>

\* the tick handler without its test of playing
on_timer_unguarded(frame) ==
    /\ ~destroyed
    /\ IF FALSE
       THEN /\ Ran("on_timer", <<>>)
            /\ UNCHANGED <<v_line_pos, prev_line_pos, hueVars, column_mixers,
                           last_frame>>
       ELSE LET prev == v_line_pos
                cur  == NextStep(v_line_pos)
                hue  == process_frame(CameraFields, hue_detection_enabled, frame,
                                      hue_volume, hue_reverb)
                had_prev == prev >= 0 /\ column_mixers[prev] # None
                faded == IF had_prev
                         THEN [column_mixers EXCEPT ![prev].final_fader = "stopped"]
                         ELSE column_mixers
                sources == ActiveSources(cur)
            IN  /\ FrameOk(frame)
                /\ prev_line_pos' = prev
                /\ v_line_pos' = cur
                /\ hue_oscillator' = hue.cm.hue_oscillator
                /\ hue_reverb_effect' = hue.cm.hue_reverb_effect
                /\ current_freq' = hue.cm.current_freq
                /\ frame_counter' = hue.cm.frame_counter
                /\ last_frame' = IF hue_detection_enabled THEN frame
                                 ELSE Frame(FALSE, FALSE, 0)
                /\ column_mixers' =
                       [faded EXCEPT ![cur] = IF Len(sources) > 0
                                              THEN ColumnVoice(sources) ELSE None]
                /\ Ran("on_timer",
                       hue.ops
                       \o (IF had_prev THEN <<Op("stop", "final_fader", prev, 0)>>
                           ELSE <<>>)
                       \o ActiveSourcesOps(cur, sources)
                       \o (IF Len(sources) > 0 THEN ColumnVoiceOps(cur, sources)
                           ELSE <<>>))
    /\ UNCHANGED <<playing, timer, speedVars, gridVars, instrument_loops, live_holds,
                   settingVars, hue_detection_enabled, closeVars, quantVars,
                   toggle_count>>

on_timer(frame) ==
    /\ ~destroyed
    /\ IF ~playing
       THEN /\ Ran("on_timer", <<>>)
            /\ UNCHANGED <<v_line_pos, prev_line_pos, hueVars, column_mixers,
                           last_frame>>
       ELSE LET prev == v_line_pos
                cur  == NextStep(v_line_pos)
                hue  == process_frame(CameraFields, hue_detection_enabled, frame,
                                      hue_volume, hue_reverb)
                had_prev == prev >= 0 /\ column_mixers[prev] # None
                faded == IF had_prev
                         THEN [column_mixers EXCEPT ![prev].final_fader = "stopped"]
                         ELSE column_mixers
                sources == ActiveSources(cur)
            IN  /\ FrameOk(frame)
                /\ prev_line_pos' = prev
                /\ v_line_pos' = cur
                /\ hue_oscillator' = hue.cm.hue_oscillator
                /\ hue_reverb_effect' = hue.cm.hue_reverb_effect
                /\ current_freq' = hue.cm.current_freq
                /\ frame_counter' = hue.cm.frame_counter
                /\ last_frame' = IF hue_detection_enabled THEN frame
                                 ELSE Frame(FALSE, FALSE, 0)
                /\ column_mixers' =
                       [faded EXCEPT ![cur] = IF Len(sources) > 0
                                              THEN ColumnVoice(sources) ELSE None]
                /\ Ran("on_timer",
                       hue.ops
                       \o (IF had_prev THEN <<Op("stop", "final_fader", prev, 0)>>
                           ELSE <<>>)
                       \o ActiveSourcesOps(cur, sources)
                       \o (IF Len(sources) > 0 THEN ColumnVoiceOps(cur, sources)
                           ELSE <<>>))
    /\ UNCHANGED <<playing, timer, speedVars, gridVars, instrument_loops, live_holds,
                   settingVars, hue_detection_enabled, closeVars, quantVars,
                   toggle_count>>

(***************************************************************************)
(* Closing the window.                                                     *)
(***************************************************************************)
\* the window is closed without stopping the hue oscillator
on_close_release_only ==
    /\ ~destroyed
    /\ capture' = "released"
    /\ destroyed' = TRUE
    /\ Ran("on_close", <<Op("release", "capture", 0, 0)>>)
    /\ UNCHANGED <<seqVars, speedVars, gridVars, column_mixers, instrument_loops,
                   live_holds, settingVars, hue_detection_enabled, hueVars,
                   quantVars, last_frame, toggle_count>>

on_close ==
    LET hue == stop_hue_oscillator(CameraFields) IN
    /\ ~destroyed
    /\ capture' = "released"
    /\ hue_oscillator' = hue.cm.hue_oscillator
    /\ hue_reverb_effect' = hue.cm.hue_reverb_effect
    /\ destroyed' = TRUE
    /\ Ran("on_close", <<Op("release", "capture", 0, 0)>> \o hue.ops)
    /\ UNCHANGED <<seqVars, speedVars, gridVars, column_mixers, instrument_loops, live_holds,
                   settingVars, hue_detection_enabled, current_freq,
                   frame_counter, quantVars, last_frame, toggle_count>>


(***************************************************************************)
(* quantize_to_scale as a call of its own: the argument is fixed by the    *)
(* initial state, the result is quantized once more.                       *)
(***************************************************************************)
Quantize ==
    /\ q_result = -1
    /\ q_result' = quantize_to_scale(q_freq)
    /\ Ran("quantize_to_scale", <<>>)
    /\ UNCHANGED <<seqVars, speedVars, gridVars, column_mixers, instrument_loops, live_holds,
                   settingVars, hue_detection_enabled, hueVars, closeVars,
                   q_freq, q_again, last_frame, toggle_count>>

Requantize ==
    /\ q_result # -1
    /\ q_again = -1
    /\ q_again' = quantize_to_scale(q_result)
    /\ Ran("quantize_to_scale", <<>>)
    /\ UNCHANGED <<seqVars, speedVars, gridVars, column_mixers, instrument_loops, live_holds,
                   settingVars, hue_detection_enabled, hueVars, closeVars,
                   q_freq, q_result, last_frame, toggle_count>>

(***************************************************************************)
(* Inputs of the environment.                                              *)
(***************************************************************************)
\* the cells that are clicked: rows 0..MaxToggleRow of the first column
ToggleCells == {<<y, 0>> : y \in 0..MaxToggleRow}

\* the hold buttons that are pressed: the last MaxHold instruments
HoldNames ==
    {INSTRUMENT_NAMES[Len(INSTRUMENT_NAMES) + 1 - i] : i \in 1..MaxHold}

\* a failed read and a contour whose area maps to 220 Hz
HoldFrames == {Frame(FALSE, FALSE, 0), Frame(TRUE, TRUE, 0)}

\* the settings the widgets hold, and their values after __init__
SettingsNow ==
    << volume, filter_enabled, filter_frequency, selected_sample, hue_volume,
       hue_reverb, target_hue, color_sensitivity, speed, hue_detection_enabled >>

SettingsAtStart ==
    << 5, FALSE, 1000, 1, 5, 5, 50, 5, INITIAL_SPEED, TRUE >>

ChangedSettings ==
    Cardinality({i \in 1..Len(SettingsNow) : SettingsNow[i] # SettingsAtStart[i]})

\* the cells switched on to fill columns: rows 0..MaxColumnRow of the
\* first column and the first cell of the second
ColumnCells == {<<y, 0>> : y \in 0..MaxColumnRow} \cup {<<0, 1>>}

\* no camera attached: every read fails
NoCamera == {Frame(FALSE, FALSE, 0)}

\* a failed read, a frame without a contour, and contours whose areas map
\* to 220 Hz and, from a raw 430 Hz, to 440 Hz
HueFrames == {Frame(FALSE, FALSE, 0), Frame(TRUE, FALSE, 0),
              Frame(TRUE, TRUE, 0), Frame(TRUE, TRUE, 210)}

\* a camera that never shows the tracked colour
DarkFrames == {Frame(FALSE, FALSE, 0), Frame(TRUE, FALSE, 0)}

SpeedLevels == 1..10

\* table entries, midpoints of neighbours, and every whole number of Hz
\* up to MaxQuantizeHz
Midpoints ==
    {(SCALE_FREQUENCIES[i] + SCALE_FREQUENCIES[i + 1]) \div 2 :
        i \in 1..(Len(SCALE_FREQUENCIES) - 1)}

QuantizeInputs ==
    {SCALE_FREQUENCIES[i] : i \in 1..Len(SCALE_FREQUENCIES)}
        \cup Midpoints \cup {Hz(h) : h \in 0..MaxQuantizeHz}

(***************************************************************************)
(* Specifications.                                                         *)
(***************************************************************************)
\* the sequencer: grid clicks, play/pause, clear all and ticks
Next ==
    \/ \E c \in ToggleCells : on_toggle(c[1], c[2])
    \/ on_play_pause
    \/ on_clear_all
    \/ \E f \in NoCamera : on_timer(f)

Spec == Init /\ [][Next]_vars

\* the speed slider with play/pause, clear all and ticks
NextSpeed ==
    \/ \E level \in SpeedLevels : on_speed_change(level)
    \/ on_play_pause
    \/ on_clear_all
    \/ \E f \in NoCamera : on_timer(f)

SpecSpeed == Init /\ [][NextSpeed]_vars

\* the hue voice: ticks with camera frames, the detection toggle,
\* play/pause and clear all
NextHue ==
    \/ \E f \in HueFrames : on_timer(f)
    \/ on_toggle_hue_detection
    \/ on_play_pause
    \/ on_clear_all

SpecHue == Init /\ [][NextHue]_vars

\* column voices: cells of two neighbouring columns are switched on (a
\* click on a cell that is off), with play/pause, clear all and ticks
NextColumn ==
    \/ \E c \in ColumnCells :
          At(current_instruments, c[1], c[2]) = -1 /\ on_toggle(c[1], c[2])
    \/ on_play_pause
    \/ on_clear_all
    \/ \E f \in NoCamera : on_timer(f)

SpecColumn == Init /\ [][NextColumn]_vars

\* every handler but on_close: a click on cell A2 while it is off, the
\* sine hold button, play/pause, clear all, the first tick after a start
\* or a reset (the one that plays A2's column) with and without a
\* detected colour, and every setting moved to one new value
Setting ==
    \/ \E level \in {10} : on_speed_change(level)
    \/ \E value \in {8} : on_volume_change(value)
    \/ \E idx \in {2} : on_sample_choice(idx)
    \/ on_toggle_filter
    \/ \E value \in {500} : on_filter_freq_change(value)
    \/ \E value \in {60} : on_hue_change(value)
    \/ \E value \in {7} : on_sensitivity_change(value)
    \/ \E value \in {8} : on_hue_volume_change(value)
    \/ \E value \in {3} : on_hue_reverb_change(value)
    \/ on_toggle_hue_detection

NextAll ==
    \/ (At(current_instruments, 0, 1) = -1 /\ on_toggle(0, 1))
    \/ on_instrument_button_down("sine")
    \/ on_instrument_button_up("sine")
    \/ on_play_pause
    \/ on_clear_all
    \/ \E f \in HoldFrames : prev_line_pos = -1 /\ on_timer(f)
    \/ (Setting /\ ChangedSettings' <= MaxChanged)

SpecAll == Init /\ [][NextAll]_vars

\* the hold buttons of HoldNames pressed and released, with a click on
\* cell A1 while it is off, the volume slider, play/pause, clear all and
\* ticks with and without a detected colour
NextHold ==
    \/ \E name \in HoldNames : on_instrument_button_down(name)
    \/ \E name \in HoldNames : on_instrument_button_up(name)
    \/ (At(current_instruments, 0, 0) = -1 /\ on_toggle(0, 0))
    \/ \E value \in {8} : on_volume_change(value)
    \/ on_play_pause
    \/ on_clear_all
    \/ \E f \in HoldFrames : on_timer(f)

SpecHold == Init /\ [][NextHold]_vars

\* closing the window at any moment of a run of play/pause, the
\* detection toggle and ticks with and without a detected colour
NextClose ==
    \/ on_close
    \/ on_play_pause
    \/ on_toggle_hue_detection
    \/ \E f \in HoldFrames : on_timer(f)

SpecClose == Init /\ [][NextClose]_vars

\* the hue voice while the grid stays empty: ticks with camera frames,
\* the detection toggle and play/pause
NextTone ==
    \/ \E f \in HueFrames : on_timer(f)
    \/ on_toggle_hue_detection
    \/ on_play_pause

SpecTone == Init /\ [][NextTone]_vars

\* the cells clicked through all instruments: the lowest and the highest
\* row of the first column
DrumCells == {<<0, 0>>, <<GRID_SIZE - 1, 0>>}

\* every way the application builds an instrument: clicks that cycle the
\* cells of DrumCells through all instruments, the drumkit hold button,
\* and ticks that play the clicked column, with play/pause and clear all
NextDrum ==
    \/ \E c \in DrumCells : on_toggle(c[1], c[2])
    \/ on_instrument_button_down("drumkit")
    \/ on_instrument_button_up("drumkit")
    \/ on_play_pause
    \/ on_clear_all
    \/ \E f \in NoCamera : on_timer(f)

SpecDrum == Init /\ [][NextDrum]_vars

\* the quantizer on its own
InitQuantize == Booted /\ q_freq \in QuantizeInputs

NextQuantize == Quantize \/ Requantize

SpecQuantize == InitQuantize /\ [][NextQuantize]_vars

\* one cell set to sine on the untouched grid, then play and ticks
GridIsOff == current_instruments = Grid(-1)

NextE2E ==
    \/ (~playing /\ GridIsOff /\ on_toggle(0, 0))
    \/ (~playing /\ on_play_pause)
    \/ \E f \in DarkFrames : on_timer(f)

SpecE2E == Init /\ [][NextE2E]_vars

(***************************************************************************)
(* Properties.                                                             *)
(***************************************************************************)
Issued(op) == \E i \in 1..Len(log) : log[i] = op

IssuedNext(op) == \E i \in 1..Len(log') : log'[i] = op

\* the operations of a log on the hue oscillator and its reverb
HueOps(l) ==
    LET onHue(op) == op[2] \in {"hue_oscillator", "hue_reverb_effect"}
    IN  SelectSeq(l, onHue)

\* the quantized frequency process_frame derives from a frame's contour
TargetOf(frame) == quantize_to_scale(RawFreq(frame.area))

Detected(frame) == frame.ret /\ frame.contours

\* a step that is a timer tick taken while playing
IsTick == playing /\ playing' /\ v_line_pos' # v_line_pos

\* C1: the step index is always in 0..9 and, unless no tick has happened
\* since the start or the last reset (previous index -1), it is the
\* previous index plus one modulo 10.
C1_StepInvariant ==
    /\ v_line_pos \in 0..9
    /\ \/ prev_line_pos = -1
       \/ v_line_pos = (prev_line_pos + 1) % 10

\* C1 witness: the step index has wrapped from 9 to 0 while playing.
C1_Witness == playing /\ prev_line_pos = 9 /\ v_line_pos = 0

\* C2: a cell toggled k times since it was last off by construction or by
\* clear all holds instrument (k - 1) mod 8 when k mod 8 # 0 and is off
\* otherwise; its index is always in -1..6.
C2_ToggleCycle ==
    \A y \in Range : \A x \in Range :
        LET k    == At(toggle_count, y, x)
            inst == At(current_instruments, y, x)
        IN  /\ inst \in -1..6
            /\ k % 8 # 0 => inst = (k - 1) % 8
            /\ k % 8 = 0 => inst = -1

\* C2 witness: while playing, a toggle has just switched cell A1 off, which
\* only the eighth toggle of a round does.
C2_Witness ==
    /\ playing
    /\ At(toggle_count, 0, 0) = 0
    /\ At(current_instruments, 0, 0) = -1
    /\ log = << Op("stop", "cell_fader", 0, 0), Op("stop", "cell_source", 0, 0) >>

OnlyA1Sine ==
    current_instruments = [Grid(-1) EXCEPT ![1][1] = 0]

MixOps(l) ==
    LET isMix(op) == op[1] = "mix" IN SelectSeq(l, isMix)

BuildOps(l) ==
    LET isBuild(op) == op[1] = "build_step" IN SelectSeq(l, isBuild)

\* C3: with only A1 set to sine, play starts at step 0 and every tick
\* moves the step index by one modulo 10; the tick that reaches step 0
\* builds exactly one instrument (a sine, for row 0) and one column voice,
\* and a tick that reaches one of the steps 1..9 builds nothing and
\* leaves that column without a voice.
C3_EndToEnd ==
    /\ [](~playing => (v_line_pos = 0 /\ column_mixers = [c \in Range |-> None]))
    /\ [][ (IsTick /\ OnlyA1Sine) =>
             /\ prev_line_pos' = v_line_pos
             /\ v_line_pos' = (v_line_pos + 1) % 10
             /\ IF v_line_pos' = 0
                THEN /\ column_mixers'[0] # None
                     /\ column_mixers'[0].voices = 1
                     /\ column_mixers'[0].final_fader = "playing"
                     /\ MixOps(log') = <<Op("mix", "column", 0, 1)>>
                     /\ BuildOps(log') = <<Op("build_step", "sine", 0, 0)>>
                ELSE /\ column_mixers'[v_line_pos'] = None
                     /\ MixOps(log') = <<>>
                     /\ BuildOps(log') = <<>>
             /\ \A c \in 1..9 : column_mixers'[c] = None
          ]_vars

\* C3 witness: a full cycle has been played and step 0 holds its voice.
C3_Witness ==
    /\ playing /\ OnlyA1Sine
    /\ prev_line_pos = 9 /\ v_line_pos = 0
    /\ column_mixers[0] # None
    /\ MixOps(log) = <<Op("mix", "column", 0, 1)>>

\* C4 as claimed: a speed change to level 10 gives 70 ms, to level 1
\* gives 250 ms, to level 5 gives 150 ms, and every level gives 70..250 ms.
C4_Claimed ==
    [][ (speed' # speed \/ speed_slider' # speed_slider) =>
          /\ speed_slider' = 10 => speed' = 70
          /\ speed_slider' = 1 => speed' = 250
          /\ speed_slider' = 5 => speed' = 150
          /\ speed' \in 70..250
      ]_vars

\* C4 amended: a speed change to level 10 gives 50 ms, to level 1 gives
\* 230 ms, to level 5 gives 150 ms, and every level of 1..10 gives
\* 50..230 ms; while playing the timer is restarted with that interval.
C4_SpeedValues ==
    [][ (speed' # speed \/ speed_slider' # speed_slider) =>
          /\ speed_slider' = 10 => speed' = 50
          /\ speed_slider' = 1 => speed' = 230
          /\ speed_slider' = 5 => speed' = 150
          /\ speed' \in 50..230
          /\ playing => timer' = speed'
      ]_vars

\* C4 witness: the slider was moved to level 10 while playing.
C4_Witness == speed_slider = 10 /\ speed = 50 /\ timer = 50

\* C5 as claimed: in every state the interval in use, and the one the
\* timer runs with, is 50 + (10 - L) * 20 for the slider's level L.
C5_Claimed ==
    /\ speed_slider \in 1..10
    /\ speed = 50 + (10 - speed_slider) * 20
    /\ timer # 0 => timer = 50 + (10 - speed_slider) * 20

RowTable == {scale_frequencies[i] : i \in 1..Len(scale_frequencies)}

\* C6 as claimed: the result of quantize is an element of the table that
\* maps grid rows to frequencies, nearest to the argument among that
\* table's elements, the first such in table order.
C6_Claimed ==
    q_result # -1 =>
        /\ q_result \in RowTable
        /\ \A f \in RowTable : Abs(q_result - q_freq) <= Abs(f - q_freq)
        /\ \E i \in 1..Len(scale_frequencies) :
              /\ scale_frequencies[i] = q_result
              /\ \A j \in 1..(i - 1) :
                    Abs(scale_frequencies[j] - q_freq) > Abs(q_result - q_freq)

\* C7: quantizing a quantized frequency gives it back.
C7_Idempotent == q_again # -1 => q_again = q_result

\* C7 witness: the argument was an exact midpoint of two neighbours.
C7_Witness == q_again # -1 /\ q_freq \in Midpoints /\ q_freq # q_result

Activated == Issued(Op("create", "hue_oscillator", 0, 0))

\* C8 as claimed: the tone is activated with currentFrequency, and the
\* oscillator's frequency, equal to the frame's target frequency.
C8_Claimed ==
    Activated =>
        /\ hue_oscillator # None
        /\ current_freq = TargetOf(last_frame)
        /\ hue_oscillator.freq = TargetOf(last_frame)

\* C8 amended: a detected frame arriving while Inactive makes the tone
\* Active, moves currentFrequency one smoothing step (a tenth of the
\* way) from its earlier value towards the frame's target, and creates
\* the oscillator, with its reverb, at that smoothed frequency.
C8_Activation ==
    [][ (playing /\ hue_oscillator = None /\ hue_detection_enabled
           /\ playing' /\ v_line_pos' # v_line_pos /\ Detected(last_frame')) =>
          /\ hue_oscillator' # None
          /\ hue_reverb_effect' # None
          /\ 10 * (current_freq' - current_freq)
                = TargetOf(last_frame') - current_freq
          /\ hue_oscillator'.freq = current_freq'
          /\ HueOps(log') = << Op("create", "hue_oscillator", 0, 0),
                               Op("create", "hue_reverb_effect", 0, 0) >>
      ]_vars

\* C8 witness: the tone is activated a second time, towards 440 Hz, from
\* the 242 Hz an earlier activation left behind.
C8_Witness ==
    /\ Activated
    /\ hue_oscillator # None
    /\ TargetOf(last_frame) = Hz(440)
    /\ current_freq = cHz(26180)

Updated == Issued(Op("setMul", "hue_oscillator", 0, 0))

\* C9: a detected frame while Active moves currentFrequency a tenth of
\* the way to the target: from 220 Hz with target 440 Hz to 242 Hz, and
\* never past the target.
C9_Smoothing ==
    [][ (IsTick /\ hue_oscillator # None /\ hue_detection_enabled
           /\ Detected(last_frame')) =>
          LET target == TargetOf(last_frame') IN
          /\ hue_oscillator' # None
          /\ 10 * (current_freq' - current_freq) = target - current_freq
          /\ (current_freq = Hz(220) /\ target = Hz(440)) => current_freq' = Hz(242)
          /\ \/ current_freq <= current_freq' /\ current_freq' <= target
             \/ target <= current_freq' /\ current_freq' <= current_freq
      ]_vars

\* C9 witness: an update while Active took the frequency from 220 Hz to
\* 242 Hz.
C9_Witness ==
    /\ Updated
    /\ TargetOf(last_frame) = Hz(440)
    /\ current_freq = Hz(242)

\* C10: with hue detection disabled, a tick that finds the tone Active
\* leaves it Inactive and issues reverb-stop then oscillator-stop and
\* nothing else; a tick that finds it Inactive, with detection disabled
\* or nothing detected, leaves it Inactive and issues no stop.
C10_Disable ==
    [][ IsTick =>
          /\ (~hue_detection_enabled /\ hue_oscillator # None) =>
                /\ hue_oscillator' = None
                /\ hue_reverb_effect' = None
                /\ HueOps(log') = << Op("stop", "hue_reverb_effect", 0, 0),
                                     Op("stop", "hue_oscillator", 0, 0) >>
          /\ (hue_oscillator = None
                /\ (~hue_detection_enabled \/ ~Detected(last_frame'))) =>
                /\ hue_oscillator' = None
                /\ HueOps(log') = <<>>
      ]_vars

\* C10 witness: a tick has torn the tone down because detection was off.
C10_Witness ==
    /\ playing
    /\ ~hue_detection_enabled
    /\ hue_oscillator = None
    /\ log = << Op("stop", "hue_reverb_effect", 0, 0),
                Op("stop", "hue_oscillator", 0, 0) >>

\* the number of cells of column col that are not off
ActiveCount(col) ==
    Cardinality({y \in Range : At(current_instruments, y, col) # -1})

OutOps(l) ==
    LET isOut(op) == op[1] = "out" IN SelectSeq(l, isOut)

\* C11: a tick that makes column c the current step stores a column voice
\* for c exactly when c has a cell that is not off; with n >= 1 such cells
\* it builds n instruments and mixes them once with gain 0.5 / n, and with
\* none it builds nothing, mixes nothing and routes nothing to the output.
C11_ColumnGain ==
    [][ IsTick =>
          LET c == v_line_pos'
              n == ActiveCount(c)
          IN  /\ (column_mixers'[c] # None) <=> (n >= 1)
              /\ Len(BuildOps(log')) = n
              /\ n >= 1 =>
                    /\ column_mixers'[c].voices = n
                    /\ column_mixers'[c].mul = <<1, 2 * n>>
                    /\ MixOps(log') = <<Op("mix", "column", c, n)>>
                    /\ OutOps(log') = <<Op("out", "final_out", c, 0)>>
              /\ n = 0 =>
                    /\ MixOps(log') = <<>>
                    /\ OutOps(log') = <<>>
      ]_vars

\* C11 witness: a tick has mixed the two cells of the first column at
\* gain 0.5 / 2.
C11_Witness ==
    /\ playing /\ v_line_pos = 0
    /\ column_mixers[0] # None
    /\ column_mixers[0].mul = <<1, 4>>
    /\ MixOps(log) = <<Op("mix", "column", 0, 2)>>

\* C12 as claimed: pausing stops the fader of every stored column voice
\* and issues no stop of the column's output, while clear all stops both
\* the fader and the output of every stored column voice.
C12_Claimed ==
    [][ /\ (playing /\ on_play_pause) =>
              \A c \in Range :
                  column_mixers[c] # None =>
                      /\ IssuedNext(Op("stop", "final_fader", c, 0))
                      /\ ~IssuedNext(Op("stop", "final_out", c, 0))
        /\ (playing /\ on_clear_all) =>
              \A c \in Range :
                  column_mixers[c] # None =>
                      /\ IssuedNext(Op("stop", "final_fader", c, 0))
                      /\ IssuedNext(Op("stop", "final_out", c, 0))
      ]_vars

\* C13 as claimed: after clear all no voice is live: no column voice is
\* stored, no cell graph is stored, the hue voice is Inactive and every
\* hold slot is empty, with no hold graph left sounding.
C13_Claimed ==
    [][ on_clear_all =>
          /\ column_mixers' = [c \in Range |-> None]
          /\ oscillators' = Grid(None)
          /\ hue_oscillator' = None
          /\ hue_reverb_effect' = None
          /\ \A name \in InstrumentNameSet :
                /\ instrument_loops'[name] = None
                /\ live_holds'[name] = 0
      ]_vars

\* the program's own state: every variable but the record of the last
\* handler's audio operations and of the last frame
stateVars ==
    <<seqVars, speedVars, gridVars, column_mixers, instrument_loops, live_holds,
      settingVars, hue_detection_enabled, hueVars, closeVars>>

\* C14: every instrument has at most one hold graph that was built and
\* not stopped, the one in its slot; a press on an occupied slot issues
\* no audio operation and changes nothing; a release of an occupied slot
\* stops the fader, then the signal, and empties the slot; a release of
\* an empty slot issues nothing and changes nothing.
C14_HoldLifecycle ==
    /\ [](\A name \in InstrumentNameSet :
            /\ live_holds[name] <= 1
            /\ live_holds[name] = (IF instrument_loops[name] # None THEN 1 ELSE 0))
    /\ [][ \A name \in InstrumentNameSet :
            /\ (instrument_loops[name] # None /\ on_instrument_button_down(name)) =>
                  /\ log' = <<>>
                  /\ UNCHANGED stateVars
            /\ (instrument_loops[name] # None /\ on_instrument_button_up(name)) =>
                  /\ log' = << Op("stop", "hold_fader", NameIndex(name), 0),
                               Op("stop", "hold_source", NameIndex(name), 0) >>
                  /\ instrument_loops'[name] = None
                  /\ live_holds'[name] = 0
            /\ (instrument_loops[name] = None /\ on_instrument_button_up(name)) =>
                  /\ log' = <<>>
                  /\ UNCHANGED stateVars
         ]_vars

\* C14 witness: a release has just stopped and emptied the last hold slot
\* while the sequencer was playing.
C14_Witness ==
    LET name == INSTRUMENT_NAMES[Len(INSTRUMENT_NAMES)] IN
    /\ playing
    /\ instrument_loops[name] = None
    /\ live_holds[name] = 0
    /\ log = << Op("stop", "hold_fader", NameIndex(name), 0),
                Op("stop", "hold_source", NameIndex(name), 0) >>

\* C15: the cell assignment matrix changes only in a step of on_toggle or
\* of on_clear_all; on_toggle changes no cell but the clicked one; a step
\* that changes a cell's instrument index is no tick (with its frame
\* processing), no play/pause, no settings handler and no hold press or
\* release.
C15_GridFrame ==
    [][ current_instruments' # current_instruments =>
          /\ \/ on_clear_all
             \/ \E y \in Range : \E x \in Range : on_toggle(y, x)
          /\ \A y \in Range : \A x \in Range :
                (At(current_instruments', y, x) # At(current_instruments, y, x)
                     /\ ~on_clear_all) =>
                    /\ on_toggle(y, x)
                    /\ current_instruments' =
                           [current_instruments EXCEPT
                               ![y + 1][x + 1] = At(current_instruments', y, x)]
          /\ ~ \E f \in HoldFrames : on_timer(f)
          /\ ~ on_play_pause
          /\ ~ Setting
          /\ ~ \E name \in InstrumentNameSet : on_instrument_button_down(name)
          /\ ~ \E name \in InstrumentNameSet : on_instrument_button_up(name)
      ]_vars

\* C15 witness: with cell A2 a sine, the hue voice sounding and one
\* setting moved, a hold release has just run while playing.
C15_Witness ==
    /\ playing
    /\ At(current_instruments, 0, 1) = 0
    /\ hue_oscillator # None
    /\ ChangedSettings = 1
    /\ log = << Op("stop", "hold_fader", NameIndex("sine"), 0),
                Op("stop", "hold_source", NameIndex("sine"), 0) >>

\* C16: clear all, playing or paused, leaves every cell at -1 and no cell
\* graph stored, with the sequencer stopped; applied to the state a clear
\* all leaves behind, it changes nothing.
C16_ClearAll ==
    [][ on_clear_all =>
          /\ \A y \in Range : \A x \in Range :
                /\ At(current_instruments', y, x) = -1
                /\ At(oscillators', y, x) = None
          /\ ~playing'
          /\ (~playing /\ current_instruments = Grid(-1) /\ oscillators = Grid(None)) =>
                UNCHANGED stateVars
      ]_vars

\* C16 witness: a clear all while playing has just stopped cell A1's graph
\* in its playing branch and again in its final loop, and released it.
C16_Witness ==
    /\ ~playing
    /\ current_instruments = Grid(-1)
    /\ oscillators = Grid(None)
    /\ log = << Op("stop", "cell_fader", 0, 0), Op("stop", "cell_source", 0, 0),
                Op("stop", "cell_fader", 0, 0), Op("stop", "cell_source", 0, 0) >>

\* C17: a tick whose frame read fails while hue detection is enabled
\* leaves the hue voice as it was (oscillator and reverb, current
\* frequency, frame counter), issues no operation on the oscillator or
\* the reverb, and leaves the sequencer running.
C17_ReadFailure ==
    [][ (IsTick /\ hue_detection_enabled /\ ~last_frame'.ret) =>
          /\ UNCHANGED hueVars
          /\ HueOps(log') = <<>>
          /\ playing' /\ timer' = timer /\ ~destroyed'
      ]_vars

\* C17 witness: the tone is still Active after a tick whose read failed.
C17_Witness ==
    /\ playing /\ hue_detection_enabled
    /\ hue_oscillator # None
    /\ ~last_frame.ret
    /\ HueOps(log) = <<>>

ReleaseOps(l) ==
    LET isRelease(op) == op[1] = "release" IN SelectSeq(l, isRelease)

\* C18: closing the window, playing or paused, tone Active or Inactive,
\* releases the still open capture once and, if the tone is Active, stops
\* its reverb and its oscillator once, leaving the tone Inactive; no other
\* step releases the capture, and nothing runs after the close.
C18_Shutdown ==
    /\ [](IF destroyed
          THEN capture = "released" /\ hue_oscillator = None
               /\ hue_reverb_effect = None
          ELSE capture = "open")
    /\ [][ /\ on_close =>
                /\ capture = "open" /\ capture' = "released"
                /\ ReleaseOps(log') = <<Op("release", "capture", 0, 0)>>
                /\ hue_oscillator' = None /\ hue_reverb_effect' = None
                /\ HueOps(log') =
                       IF hue_oscillator # None
                       THEN << Op("stop", "hue_reverb_effect", 0, 0),
                               Op("stop", "hue_oscillator", 0, 0) >>
                       ELSE <<>>
           /\ (capture' # capture \/ ReleaseOps(log') # <<>>) => on_close
           /\ ~destroyed
         ]_vars

\* C18 witness: the window was closed while playing with the tone Active.
C18_Witness ==
    /\ destroyed /\ playing
    /\ capture = "released"
    /\ hue_oscillator = None
    /\ log = << Op("release", "capture", 0, 0),
                Op("stop", "hue_reverb_effect", 0, 0),
                Op("stop", "hue_oscillator", 0, 0) >>

\* C19 as claimed: a tick that leaves a column holding a voice stops that
\* voice's fader and releases the reference, so that no voice remains
\* stored for the column just left.
C19_Claimed ==
    [][ (IsTick /\ column_mixers[v_line_pos] # None) =>
          /\ IssuedNext(Op("stop", "final_fader", v_line_pos, 0))
          /\ column_mixers'[v_line_pos] = None
      ]_vars

\* an operation of kind what on an object at position i, j was issued
IssuedAt(l, what, i, j) ==
    \E k \in 1..Len(l) : l[k][1] = what /\ l[k][3] = i /\ l[k][4] = j

\* a stop of an object of kind obj belonging to column c was issued
StoppedInColumn(l, obj, c) ==
    \E k \in 1..Len(l) : l[k][1] = "stop" /\ l[k][2] = obj /\ l[k][4] = c

\* C20 as claimed: whenever an owner drops or replaces its reference to
\* instrument graphs built by create_instrument, the handler doing so has
\* stopped their faders and signals: a cell's graph, a hold slot's graph
\* and the graphs mixed into a column's voice.
C20_Claimed ==
    [][ /\ \A y \in Range : \A x \in Range :
              (At(oscillators, y, x) # None
                   /\ (At(oscillators', y, x) = None
                          \/ IssuedAt(log', "build_cell", y, x))) =>
                  /\ IssuedNext(Op("stop", "cell_fader", y, x))
                  /\ IssuedNext(Op("stop", "cell_source", y, x))
        /\ \A name \in InstrumentNameSet :
              (instrument_loops[name] # None
                   /\ (instrument_loops'[name] = None
                          \/ IssuedAt(log', "build_hold", NameIndex(name), 0))) =>
                  /\ IssuedNext(Op("stop", "hold_fader", NameIndex(name), 0))
                  /\ IssuedNext(Op("stop", "hold_source", NameIndex(name), 0))
        /\ \A c \in Range :
              (column_mixers[c] # None
                   /\ (column_mixers'[c] = None
                          \/ \E n \in 1..GRID_SIZE : IssuedNext(Op("mix", "column", c, n)))) =>
                  /\ StoppedInColumn(log', "step_fader", c)
                  /\ StoppedInColumn(log', "step_source", c)
      ]_vars


\* a frame process_frame handles to the end: detection is off, or the
\* camera delivered a picture
Processed(frame) == ~hue_detection_enabled \/ frame.ret

\* C21: after every tick whose frame is processed (detection disabled, or
\* enabled with a successful read) the hue oscillator exists if and only
\* if detection is enabled and the frame held a contour; a processed
\* frame without a contour that finds the tone Active stops the reverb
\* and the oscillator.
C21_ToneFollowsDetection ==
    [][ (IsTick /\ Processed(last_frame')) =>
          /\ (hue_oscillator' # None)
                <=> (hue_detection_enabled /\ last_frame'.contours)
          /\ (hue_reverb_effect' # None) <=> (hue_oscillator' # None)
          /\ (hue_oscillator # None /\ hue_detection_enabled
                /\ ~last_frame'.contours) =>
                HueOps(log') = << Op("stop", "hue_reverb_effect", 0, 0),
                                  Op("stop", "hue_oscillator", 0, 0) >>
      ]_vars

\* C21 witness: with detection on, a frame read without a contour has
\* torn down a tone that an earlier frame had started.
C21_Witness ==
    /\ playing
    /\ hue_detection_enabled
    /\ last_frame = Frame(TRUE, FALSE, 0)
    /\ hue_oscillator = None
    /\ log = << Op("stop", "hue_reverb_effect", 0, 0),
                Op("stop", "hue_oscillator", 0, 0) >>


\* C22: the frame counter advances modulo 5 on every frame read with
\* detection on and on no other tick; on a detected frame while Active
\* the smoothed frequency is written to the oscillator exactly when the
\* advanced counter is 0, and otherwise the oscillator keeps its
\* frequency, while the smoothing step, the volume and the reverb size
\* and balance are applied on every such frame.
C22_Throttle ==
    [][ IsTick =>
          /\ frame_counter' =
                IF hue_detection_enabled /\ last_frame'.ret
                THEN (frame_counter + 1) % FRAME_DIVIDER ELSE frame_counter
          /\ (hue_oscillator # None /\ hue_detection_enabled
                /\ Detected(last_frame')) =>
                /\ 10 * (current_freq' - current_freq)
                      = TargetOf(last_frame') - current_freq
                /\ IssuedNext(Op("setFreq", "hue_oscillator", 0, 0))
                      <=> (frame_counter' = 0)
                /\ hue_oscillator'.freq =
                      IF frame_counter' = 0 THEN current_freq'
                      ELSE hue_oscillator.freq
                /\ hue_oscillator'.mul = hue_volume
                /\ hue_reverb_effect'.size = hue_reverb
                /\ hue_reverb_effect'.bal = hue_reverb
                /\ IssuedNext(Op("setMul", "hue_oscillator", 0, 0))
                /\ IssuedNext(Op("setSize", "hue_reverb_effect", 0, 0))
                /\ IssuedNext(Op("setBal", "hue_reverb_effect", 0, 0))
      ]_vars

\* C22 witness: an update on a frame that is not a fifth one has moved
\* currentFrequency to 242 Hz while the oscillator still sounds 220 Hz.
C22_Witness ==
    /\ Updated
    /\ ~Issued(Op("setFreq", "hue_oscillator", 0, 0))
    /\ frame_counter # 0
    /\ current_freq = Hz(242)
    /\ hue_oscillator.freq = Hz(220)


\* C23: whenever the sequencer is not playing no column voice is stored
\* and the hue tone is Inactive, and a timer tick delivered while not
\* playing changes nothing: no step advance, no frame processed, no
\* graph built.
C23_Quiescence ==
    /\ [](~playing =>
            /\ \A col \in 0..(GRID_SIZE - 1) : column_mixers[col] = None
            /\ hue_oscillator = None
            /\ hue_reverb_effect = None)
    /\ [][ (~playing /\ \E f \in HoldFrames : on_timer(f)) =>
              /\ UNCHANGED stateVars
              /\ log' = <<>>
         ]_vars

\* C23 witness: a pause has just silenced a running sequencer whose hue
\* tone was Active and whose column 1 voice was stored.
C23_Witness ==
    /\ ~playing
    /\ Issued(Op("stop", "hue_oscillator", 0, 0))
    /\ Issued(Op("stop", "final_out", 0, 0))
    /\ v_line_pos = 0
    /\ prev_line_pos = GRID_SIZE - 1


\* the stored column voices whose fader has not been told to stop
Sounding ==
    {col \in 0..(GRID_SIZE - 1) :
        column_mixers[col] # None /\ column_mixers[col].final_fader # "stopped"}

\* C24: at most one stored column voice has a fader that has not been
\* told to stop, and it is the voice of the current column; every other
\* stored column voice has had its fade-out triggered.
C24_SingleSounding ==
    /\ Cardinality(Sounding) <= 1
    /\ \A col \in Sounding : col = v_line_pos
    /\ \A col \in 0..(GRID_SIZE - 1) :
          (column_mixers[col] # None /\ col # v_line_pos) =>
              column_mixers[col].final_fader = "stopped"

\* C24 witness: after a full round the voice of column 1 sounds while
\* the faded-out voice of column 2 is still stored.
C24_Witness ==
    /\ playing
    /\ v_line_pos = 0
    /\ Sounding = {0}
    /\ column_mixers[1] # None
    /\ column_mixers[1].final_fader = "stopped"


\* C25: for every cell a graph is stored in oscillators if and only if
\* the cell's instrument index is not -1.
C25_CellConsistency ==
    \A y \in 0..(GRID_SIZE - 1) : \A x \in 0..(GRID_SIZE - 1) :
        (At(oscillators, y, x) # None) <=> (At(current_instruments, y, x) # -1)

\* C25 witness: a pause has stopped the graph of cell A1, which stays
\* stored with the cell's instrument still selected.
C25_Witness ==
    /\ ~playing
    /\ At(current_instruments, 0, 0) # -1
    /\ At(oscillators, 0, 0) # None
    /\ At(oscillators, 0, 0) = StopInstrument(At(oscillators, 0, 0))
    /\ Issued(Op("stop", "cell_source", 0, 0))


\* C26 as claimed: after clear all the step index is 0 and the previous
\* step index is -1, whether the sequencer was playing or paused, while a
\* pause leaves both indices unchanged.
C26_Claimed ==
    [][ /\ on_clear_all => (v_line_pos' = 0 /\ prev_line_pos' = -1)
        /\ (playing /\ on_play_pause) => UNCHANGED <<v_line_pos, prev_line_pos>>
      ]_vars


\* the frequencies the application passes to create_instrument
BuildFreqs == {RowFreq(y) : y \in Range} \cup {Hz(HOLD_FREQ)}

\* a stored instrument graph built at an application frequency, a
\* drumkit graph being a hi-hat
BuiltInRange(inst) ==
    /\ inst.freq \in BuildFreqs
    /\ inst.freq >= Hz(200)
    /\ inst.osc \notin {"kick", "snare"}

\* C27: every instrument the application builds (on a grid click, on a
\* sequenced step, on a hold press) gets a row frequency of the scale
\* table or the 220 Hz hold reference, which is at least 200 Hz, so a
\* drumkit build takes the hi-hat branch and the kick and snare branches
\* are never taken.
C27_DrumkitHiHat ==
    /\ \A f \in BuildFreqs : f >= Hz(200) /\ DrumBranch(f) = "hihat"
    /\ \A i \in 1..Len(log) :
          log[i][1] \in {"build_cell", "build_step", "build_hold"} =>
              log[i][2] \notin {"kick", "snare"}
    /\ \A y \in Range : \A x \in Range :
          At(oscillators, y, x) # None => BuiltInRange(At(oscillators, y, x))
    /\ \A name \in InstrumentNameSet :
          instrument_loops[name] # None => BuiltInRange(instrument_loops[name])
    /\ \A col \in Range :
          \A i \in 1..Len(ActiveSources(col)) :
              BuiltInRange(ActiveSources(col)[i].inst)

\* C27 witness: a tick has built hi-hats for the cells A1 (220 Hz) and
\* J1 (784 Hz) while the drumkit hold button is down and A1 stores its
\* own drumkit graph.
C27_Witness ==
    /\ playing
    /\ Issued(Op("build_step", "hihat", 0, 0))
    /\ Issued(Op("build_step", "hihat", GRID_SIZE - 1, 0))
    /\ At(oscillators, 0, 0) # None
    /\ At(oscillators, 0, 0).osc = "hihat"
    /\ instrument_loops["drumkit"] # None
    /\ instrument_loops["drumkit"].osc = "hihat"

==========================================================================
